---- MODULE Spec2Model ----
(***************************************************************************)
(* A model of python-rezparser: the Rez preprocessor                       *)
(* (rezparser/preprocessor.py, class RezPreprocessor) together with the    *)
(* expression parser entry it calls (rezparser/parser.py, start_expr) and  *)
(* the constant-expression evaluator (rezparser/eval.py, Evaluator.eval).  *)
(* The string unescaper of the parser (rezparser/parser.py,                *)
(* _unescape_string) is modelled as a loop of its own.                     *)
(*                                                                         *)
(* The preprocessor is modelled at the granularity of one iteration of    *)
(* the loop of _token_internal together with everything its caller does   *)
(* with the token it hands back, up to the next call of _token_internal.   *)
(* pc names the call site of _token_internal that is executing.  The      *)
(* lexers of the include stack are the environment: each raw read draws    *)
(* the next token of the file from the vocabulary of the input.            *)
(***************************************************************************)
EXTENDS Integers, Sequences, FiniteSets, TLC

VARIABLES
    include_stack,          \* self.include_stack: frames <<filename, framework>>
    macros,                 \* self.macros: casefolded name -> replacement tokens
    include_path,           \* self.include_path (user include directories)
    sys_include_path,       \* self.sys_include_path (system include directories)
    expansion_stack,        \* self.expansion_stack: pending tokens and sentinels
    macro_stack,            \* self.macro_stack: names being expanded
    if_stack,               \* self.if_stack
    if_state,               \* self.if_state
    included_files,         \* self.included_files: set of <<name, angle>>
    enum_state,             \* self.enum_state
    enum_counter,           \* self.enum_counter
    enum_constant_name,     \* self.enum_constant_name
    enum_constant_tokens,   \* self.enum_constant_tokens
    enum_constant_depth,    \* self.enum_constant_depth
    pc,                     \* the call site of _token_internal in token()
    tok,                    \* token(): local tok
    cond_tokens,            \* token(): local cond_tokens
    printf_tokens,          \* token(): local printf_tokens
    macro,                  \* token(): local macro, the operand of defined
    ret,                    \* what token() returned in this step, if it returned
    err,                    \* the exception that ended token(), "" when none
    printed,                \* the argument lists handed to print_func
    last_search,            \* state_for_include: its arguments and local include_path
    import_keys,            \* history: the keys of the #import directives processed
    reads,                  \* number of raw tokens read from the lexers
    vocab,                  \* the vocabulary of the input files
    ev_expr,                \* Evaluator.eval: its argument
    ev_result,              \* Evaluator.eval: its result
    current_resource,       \* Evaluator.current_resource
    unescape                \* _unescape_string: s, ret, lastpos, pos, and its outcome

vars == <<include_stack, macros, include_path, sys_include_path, expansion_stack,
          macro_stack, if_stack, if_state, included_files, enum_state, enum_counter,
          enum_constant_name, enum_constant_tokens, enum_constant_depth, pc, tok,
          cond_tokens, printf_tokens, macro, ret, err, printed, last_search, import_keys,
          reads, vocab, ev_expr, ev_result, current_resource, unescape>>

ppvars == <<include_stack, macros, include_path, sys_include_path, expansion_stack,
            macro_stack, if_stack, if_state, included_files, enum_state, enum_counter,
            enum_constant_name, enum_constant_tokens, enum_constant_depth, pc, tok,
            cond_tokens, printf_tokens, macro, ret, err, printed, last_search, import_keys,
            reads, vocab>>

evvars == <<ev_expr, ev_result, current_resource>>

(***************************************************************************)
(* Bounds of the model.                                                    *)
(***************************************************************************)
\* Raw tokens read from the lexers in one run (see ReadBudget).
MaxReads == 5
\* _unescape_string is called on strings of at most MaxString characters,
\* and its loop is followed while ret holds at most MaxDecoded bytes.
MaxString == 5
MaxDecoded == 10
\* Operands of the evaluator's arithmetic range over -MaxInt..MaxInt.
MaxInt == 6
\* The data of the current resource holds 1..MaxBytes bytes.
MaxBytes == 3
\* $$BitField is called with offsets 0..MaxOffset and lengths 1..MaxLength.
MaxOffset == 7
MaxLength == 9

\* preprocessor.py line 173: the macro stack may not exceed this length.
MaxExpansionDepth == 100
\* preprocessor.py line 312: the most arguments #printf accepts.
MaxPrintfArgs == 20

(***************************************************************************)
(* Tokens (common.Token).  value is the lexeme as a sequence of characters *)
(* for identifiers, and of path components for file names; num is the      *)
(* number an INTLIT_DEC lexeme denotes; kind, angle and body carry the     *)
(* payloads pp_ifdef_type / pp_include_type, the form of the include file  *)
(* name, and pp_define_value / pp_include_filename.                        *)
(***************************************************************************)
Token(type, value, num, kind, angle, body) ==
    [type |-> type, value |-> value, num |-> num, kind |-> kind,
     angle |-> angle, body |-> body]

Sym(type) == Token(type, <<>>, 0, "", FALSE, <<>>)
Ident(chars) == Token("IDENTIFIER", chars, 0, "", FALSE, <<>>)
IntLit(n) == Token("INTLIT_DEC", <<>>, n, "", FALSE, <<>>)
StrLit(s) == Token("STRINGLIT_TEXT", s, 0, "", FALSE, <<>>)

\* lexer.token() at the end of the input returns None.
NoneTok == Sym("None")
\* The marker "expansion_end" of the expansion stack.
ExpansionEnd == Sym("expansion_end")
\* ret when the step did not return from token().
NoRet == Sym("NoReturn")

\* lexer.py t_PP_DEFINE, t_PP_UNDEF, t_PP_IFDEF, t_PP_INCLUDE.
PPDefine(name, value) == Token("PP_DEFINE", name, 0, "", FALSE, value)
PPUndef(name) == Token("PP_UNDEF", name, 0, "", FALSE, <<>>)
PPIfdef(name, type) == Token("PP_IFDEF", name, 0, type, FALSE, <<>>)
PPIncludeAngle(type, name) ==
    Token("PP_INCLUDE", <<"<">> \o name \o <<">">>, 0, type, TRUE, <<>>)
PPIncludeQuoted(type, toks) == Token("PP_INCLUDE", <<>>, 0, type, FALSE, toks)

(***************************************************************************)
(* str.casefold on identifiers over the letters the inputs use.            *)
(***************************************************************************)
Lower(c) ==
    CASE c = "A" -> "a"
      [] c = "B" -> "b"
      [] c = "F" -> "f"
      [] c = "O" -> "o"
      [] OTHER -> c

RECURSIVE Casefold(_)
Casefold(name) ==
    IF name = <<>> THEN <<>> ELSE <<Lower(Head(name))>> \o Casefold(Tail(name))

(***************************************************************************)
(* rezparser/ast.py: expression nodes.  op is the class of the node.       *)
(***************************************************************************)
IntLiteral(n) == [op |-> "IntLiteral", value |-> n]
IntSymbol(name) == [op |-> "IntSymbol", name |-> name]
StringLiteral(s) == [op |-> "StringLiteral", value |-> s]
StringConcat(values) == [op |-> "StringConcat", values |-> values]
UnaryOp(op, value) == [op |-> op, value |-> value]
BinaryOp(op, left, right) == [op |-> op, left |-> left, right |-> right]
FunResourceSize == [op |-> "FunResourceSize"]
FunShell(name) == [op |-> "FunShell", name |-> name]
FunPackedSize(start, row_bytes, row_count) ==
    [op |-> "FunPackedSize", start |-> start, row_bytes |-> row_bytes,
     row_count |-> row_count]

FunBitField(start, offset, length) ==
    [op |-> "FunBitField", start |-> start, offset |-> offset, length |-> length]
FunByte(start) == [op |-> "FunByte", start |-> start]
FunWord(start) == [op |-> "FunWord", start |-> start]
FunLong(start) == [op |-> "FunLong", start |-> start]

IntUnaryOps == {"Negative", "BoolNot", "BitNot"}
IntBinaryOps ==
    {"Multiply", "Divide", "Modulo", "Add", "Subtract", "BitShiftLeft",
     "BitShiftRight", "LessThan", "GreaterThan", "LessThanEqual",
     "GreaterThanEqual", "Equal", "NotEqual", "BitAnd", "BitOr", "BitXor",
     "BoolAnd", "BoolOr"}

(***************************************************************************)
(* The result of an evaluation: a value, or the exception raised.          *)
(***************************************************************************)
Ok(v) == [ok |-> TRUE, val |-> v, exc |-> ""]
Raise(exc) == [ok |-> FALSE, val |-> 0, exc |-> exc]

\* Python's abs, int(bool), and the arithmetic of unbounded ints.
Abs(n) == IF n < 0 THEN -n ELSE n
BoolInt(b) == IF b THEN 1 ELSE 0

RECURSIVE Pow2(_)
Pow2(n) == IF n = 0 THEN 1 ELSE 2 * Pow2(n - 1)

\* Python's &, | and ^ on ints (two's complement of unbounded width).
RECURSIVE BitAndInt(_, _)
BitAndInt(a, b) ==
    IF a = 0 \/ b = 0 THEN 0
    ELSE IF a = -1 THEN b
    ELSE IF b = -1 THEN a
    ELSE (a % 2) * (b % 2) + 2 * BitAndInt(a \div 2, b \div 2)

BitNotInt(a) == -a - 1
BitOrInt(a, b) == BitNotInt(BitAndInt(BitNotInt(a), BitNotInt(b)))
BitXorInt(a, b) == BitOrInt(a, b) - BitAndInt(a, b)

\* eval.py lines 219-223: Divide.  Python's // floors, like \div.
DivideMutant(left, right) == left \div Abs(right)
Divide(left, right) ==
    IF left < 0 THEN -((-left) \div Abs(right)) ELSE left \div Abs(right)

\* eval.py lines 224-226: Modulo.
Modulo(left, right) ==
    IF left < 0 THEN -((-left) % Abs(right)) ELSE left % Abs(right)

\* eval.py lines 216-252: the operators that need both operands.
StrictBinary(op, left, right) ==
    CASE op = "Multiply" -> Ok(left * right)
      [] op = "Divide" ->
            IF right = 0 THEN Raise("ZeroDivisionError") ELSE Ok(Divide(left, right))
      [] op = "Modulo" ->
            IF right = 0 THEN Raise("ZeroDivisionError") ELSE Ok(Modulo(left, right))
      [] op = "Add" -> Ok(left + right)
      [] op = "Subtract" -> Ok(left - right)
      [] op = "BitShiftLeft" -> Ok(IF right < 0 THEN 0 ELSE left * Pow2(right))
      [] op = "BitShiftRight" -> Ok(IF right < 0 THEN 0 ELSE left \div Pow2(right))
      [] op = "LessThan" -> Ok(BoolInt(left < right))
      [] op = "GreaterThan" -> Ok(BoolInt(left > right))
      [] op = "LessThanEqual" -> Ok(BoolInt(left <= right))
      [] op = "GreaterThanEqual" -> Ok(BoolInt(left >= right))
      [] op = "Equal" -> Ok(BoolInt(left = right))
      [] op = "NotEqual" -> Ok(BoolInt(left # right))
      [] op = "BitAnd" -> Ok(BitAndInt(left, right))
      [] op = "BitOr" -> Ok(BitOrInt(left, right))
      [] op = "BitXor" -> Ok(BitXorInt(left, right))

\* eval.py lines 199-206.
Unary(op, value) ==
    CASE op = "Negative" -> Ok(-value)
      [] op = "BoolNot" -> Ok(BoolInt(value = 0))
      [] op = "BitNot" -> Ok(BitNotInt(value))

\* Evaluator(): symbols is empty and there is no current resource
\* (eval.py lines 56-63; test.py constructs the evaluator with no arguments).
Symbols == <<>>

\* eval.py lines 33-47: ResourceState, of which the model keeps data, a
\* sequence of bytes; NoResource is current_resource = None.
ResourceState(data) == [present |-> TRUE, data |-> data]
NoResource == [present |-> FALSE, data |-> <<>>]

\* int.from_bytes(bytes, "big", signed=False).
RECURSIVE FromBytes(_)
FromBytes(bytes) ==
    IF bytes = <<>> THEN 0
    ELSE FromBytes(SubSeq(bytes, 1, Len(bytes) - 1)) * 256 + bytes[Len(bytes)]

\* data[from:to] for 0 <= from, 0 <= to: the slice stops at the end of data.
Slice(data, from, to) ==
    SubSeq(data, from + 1, IF to < Len(data) THEN to ELSE Len(data))

\* eval.py lines 71-80: eval_bitfield, for start + offset >= 0, length >= 1.
EvalBitfield(start, offset, length) ==
    IF ~current_resource.present THEN Raise("AttributeError")
    ELSE LET startbyte == (start + offset) \div 8
             endbyte == (start + offset + length) \div 8
             endbit == (start + offset + length) % 8
             mask == Pow2(length) - 1
             bytes == Slice(current_resource.data, startbyte, endbyte + 1)
             num == BitAndInt(FromBytes(bytes) \div Pow2(8 - endbit), mask)
         IN  Ok(IF num > mask \div 2 THEN num - mask ELSE num)

RECURSIVE Eval(_)
RECURSIVE EvalConcat(_)

\* eval.py lines 207-216: BoolAnd and BoolOr evaluate the right side lazily.
EvalLazyMutant(op, left, right) ==
    LET r == Eval(right)
    IN  IF ~r.ok THEN r
        ELSE IF op = "BoolAnd" THEN (IF left = 0 THEN Ok(left) ELSE r)
        ELSE (IF left # 0 THEN Ok(left) ELSE r)
EvalLazy(op, left, right) ==
    IF op = "BoolAnd"
    THEN (IF left = 0 THEN Ok(left) ELSE Eval(right))
    ELSE (IF left # 0 THEN Ok(left) ELSE Eval(right))

\* eval.py lines 178-313: Evaluator.eval.
Eval(expr) ==
    CASE expr.op = "IntSymbol" ->
            IF expr.name \in DOMAIN Symbols THEN Ok(Symbols[expr.name])
            ELSE Raise("ValueError")
      [] expr.op = "IntLiteral" -> Ok(expr.value)
      [] expr.op \in IntUnaryOps ->
            LET v == Eval(expr.value)
            IN  IF v.ok THEN Unary(expr.op, v.val) ELSE v
      [] expr.op \in IntBinaryOps ->
            LET l == Eval(expr.left)
            IN  IF ~l.ok THEN l
                ELSE IF expr.op \in {"BoolAnd", "BoolOr"}
                THEN EvalLazy(expr.op, l.val, expr.right)
                ELSE LET r == Eval(expr.right)
                     IN  IF r.ok THEN StrictBinary(expr.op, l.val, r.val) ELSE r
      [] expr.op = "FunResourceSize" ->
            Ok(IF current_resource.present THEN Len(current_resource.data) ELSE 0)
      [] expr.op = "FunBitField" ->
            LET a == Eval(expr.start)
                b == Eval(expr.offset)
                c == Eval(expr.length)
            IN  IF ~a.ok THEN a ELSE IF ~b.ok THEN b ELSE IF ~c.ok THEN c
                ELSE EvalBitfield(a.val, b.val, c.val)
      [] expr.op \in {"FunByte", "FunWord", "FunLong"} ->
            LET a == Eval(expr.start)
                length == CASE expr.op = "FunByte" -> 8
                            [] expr.op = "FunWord" -> 16
                            [] expr.op = "FunLong" -> 32
            IN  IF a.ok THEN EvalBitfield(a.val, 0, length) ELSE a
      [] expr.op = "FunPackedSize" ->
            LET a == Eval(expr.start)
                b == Eval(expr.row_bytes)
                c == Eval(expr.row_count)
            IN  IF ~a.ok THEN a ELSE IF ~b.ok THEN b ELSE IF ~c.ok THEN c
                ELSE Raise("NotImplementedError")
      [] expr.op = "StringLiteral" -> Ok(expr.value)
      [] expr.op = "StringConcat" -> EvalConcat(expr.values)
      [] expr.op = "FunShell" -> Raise("NotImplementedError")
      [] OTHER -> Raise("ValueError")

\* eval.py line 294: b"".join of the evaluated values.
EvalConcat(values) ==
    IF values = <<>> THEN Ok(<<>>)
    ELSE LET h == Eval(Head(values))
             t == EvalConcat(Tail(values))
         IN  IF ~h.ok THEN h ELSE IF ~t.ok THEN t ELSE Ok(h.val \o t.val)

(***************************************************************************)
(* rezparser/parser.py, start symbol start_expr: the productions of        *)
(* expression over integer literals, identifiers, parentheses, the unary   *)
(* and binary operators, and runs of string literals.  A parse ends in a   *)
(* node, or fails at the position of the token that cannot be shifted.     *)
(***************************************************************************)
Parsed(node, pos) == [ok |-> TRUE, node |-> node, pos |-> pos]
ParseFail(pos) == [ok |-> FALSE, node |-> IntLiteral(0), pos |-> pos]

\* parser.py lines 291-448: the binary productions, loosest binding first.
BinaryLevels ==
    << {"BOOLOR"}, {"BOOLAND"}, {"BITOR"}, {"BITXOR"}, {"BITAND"},
       {"EQUAL", "NOTEQUAL"},
       {"LESS", "GREATER", "LESSEQUAL", "GREATEREQUAL"},
       {"SHIFTLEFT", "SHIFTRIGHT"}, {"PLUS", "MINUS"},
       {"MULTIPLY", "DIVIDE", "MODULO"} >>

BinaryNode(type) ==
    CASE type = "BOOLOR" -> "BoolOr"
      [] type = "BOOLAND" -> "BoolAnd"
      [] type = "BITOR" -> "BitOr"
      [] type = "BITXOR" -> "BitXor"
      [] type = "BITAND" -> "BitAnd"
      [] type = "EQUAL" -> "Equal"
      [] type = "NOTEQUAL" -> "NotEqual"
      [] type = "LESS" -> "LessThan"
      [] type = "GREATER" -> "GreaterThan"
      [] type = "LESSEQUAL" -> "LessThanEqual"
      [] type = "GREATEREQUAL" -> "GreaterThanEqual"
      [] type = "SHIFTLEFT" -> "BitShiftLeft"
      [] type = "SHIFTRIGHT" -> "BitShiftRight"
      [] type = "PLUS" -> "Add"
      [] type = "MINUS" -> "Subtract"
      [] type = "MULTIPLY" -> "Multiply"
      [] type = "DIVIDE" -> "Divide"
      [] type = "MODULO" -> "Modulo"

\* parser.py lines 270-289.
UnaryNode(type) ==
    CASE type = "MINUS" -> "Negative"
      [] type = "BOOLNOT" -> "BoolNot"
      [] type = "BITNOT" -> "BitNot"

RECURSIVE ParseLevel(_, _, _)
RECURSIVE ParseRest(_, _, _, _)
RECURSIVE ParseUnary(_, _)

\* parser.py lines 249-268: int_expression_simple.
ParseSimple(toks, pos) ==
    IF pos > Len(toks) THEN ParseFail(pos)
    ELSE CASE toks[pos].type = "INTLIT_DEC" -> Parsed(IntLiteral(toks[pos].num), pos + 1)
           [] toks[pos].type = "IDENTIFIER" -> Parsed(IntSymbol(toks[pos].value), pos + 1)
           [] toks[pos].type = "LPAREN" ->
                LET e == ParseLevel(toks, pos + 1, 1)
                IN  IF ~e.ok THEN e
                    ELSE IF e.pos <= Len(toks) /\ toks[e.pos].type = "RPAREN"
                    THEN Parsed(e.node, e.pos + 1)
                    ELSE ParseFail(e.pos)
           [] OTHER -> ParseFail(pos)

\* parser.py lines 270-289: int_expression_unaryop.
ParseUnary(toks, pos) ==
    IF pos <= Len(toks) /\ toks[pos].type \in {"MINUS", "BOOLNOT", "BITNOT"}
    THEN LET v == ParseUnary(toks, pos + 1)
         IN  IF v.ok THEN Parsed(UnaryOp(UnaryNode(toks[pos].type), v.node), v.pos)
             ELSE v
    ELSE ParseSimple(toks, pos)

\* A left-recursive binary production, after its left operand.
ParseRest(toks, pos, lvl, left) ==
    IF pos <= Len(toks) /\ toks[pos].type \in BinaryLevels[lvl]
    THEN LET r == ParseLevel(toks, pos + 1, lvl + 1)
         IN  IF ~r.ok THEN r
             ELSE ParseRest(toks, r.pos, lvl,
                            BinaryOp(BinaryNode(toks[pos].type), left, r.node))
    ELSE Parsed(left, pos)

ParseLevel(toks, pos, lvl) ==
    IF lvl > Len(BinaryLevels) THEN ParseUnary(toks, pos)
    ELSE LET l == ParseLevel(toks, pos, lvl + 1)
         IN  IF l.ok THEN ParseRest(toks, l.pos, lvl, l.node) ELSE l

\* parser.py lines 511-551: string_expression, a run of string literals.
RECURSIVE StringRun(_, _)
StringRun(toks, pos) ==
    IF pos <= Len(toks) /\ toks[pos].type = "STRINGLIT_TEXT"
    THEN StringRun(toks, pos + 1) ELSE pos

ParseString(toks) ==
    LET end == StringRun(toks, 1)
        values == [i \in 1..(end - 1) |-> StringLiteral(toks[i].value)]
    IN  IF end <= Len(toks) THEN ParseFail(end)
        ELSE IF Len(toks) = 1 THEN Parsed(values[1], end)
        ELSE Parsed(StringConcat(SubSeq(values, 1, end - 1)), end)

\* parser.py lines 101-102 and 1205-1207: parse_expr.  p_error raises ParseError
\* at a token, and fails on t.lexer (AttributeError) when t is None, which is
\* what it gets at the end of the tokens.
ParseExpr(toks) ==
    LET r == IF toks # <<>> /\ toks[1].type = "STRINGLIT_TEXT"
             THEN ParseString(toks) ELSE ParseLevel(toks, 1, 1)
    IN  IF r.ok /\ r.pos = Len(toks) + 1 THEN [ok |-> TRUE, node |-> r.node, exc |-> ""]
        ELSE [ok |-> FALSE, node |-> r.node,
              exc |-> IF r.pos > Len(toks) THEN "AttributeError" ELSE "ParseError"]

IsStringExpr(node) == node.op \in {"StringLiteral", "StringConcat", "FunShell"}

\* preprocessor.py lines 150-153: _eval_expression.  lexer.NoOpLexer hands the
\* token list to the parser unchanged.
EvalExpression(tokens) ==
    LET p == ParseExpr(tokens)
    IN  IF p.ok THEN Eval(p.node) ELSE Raise(p.exc)

\* bool() of an evaluation result: a nonzero int or a non-empty byte string.
Truthy(node, v) == IF IsStringExpr(node) THEN v # <<>> ELSE v # 0

(***************************************************************************)
(* The input.  A run reads files over one vocabulary; the lexer may return *)
(* any token of it, or None for the end of the file, at every raw read.    *)
(***************************************************************************)
Chars(name) ==
    CASE name = "Foo" -> <<"F", "o", "o">>
      [] name = "FOO" -> <<"F", "O", "O">>
      [] name = "fOo" -> <<"f", "O", "o">>
      [] name = "foo" -> <<"f", "o", "o">>
      [] name = "A" -> <<"A">>
      [] name = "B" -> <<"B">>
      [] name = "x" -> <<"x">>
      [] name = "true" -> <<"t", "r", "u", "e">>
      [] name = "false" -> <<"f", "a", "l", "s", "e">>
      [] name = "rez" -> <<"r", "e", "z">>
      [] name = "derez" -> <<"d", "e", "r", "e", "z">>
      [] name = "enum" -> <<"e", "n", "u", "m">>
      [] name = "defined" -> <<"d", "e", "f", "i", "n", "e", "d">>

\* lexer.py lines 306-313: a keyword is a token of its own type.
Keyword(name, type) == Token(type, Chars(name), 0, "", FALSE, <<>>)

Vocabularies ==
    {"cond", "macro", "recursion", "defined", "enum", "include", "printf", "arguments",
     "inactive"}

\* The tokens of ( 1 , 1 , ... , 1 ) with n >= 1 arguments.
RECURSIVE Ones(_)
Ones(n) ==
    IF n = 1 THEN <<IntLit(1)>> ELSE Ones(n - 1) \o <<Sym("COMMA"), IntLit(1)>>
ArgumentList(n) == <<Sym("LPAREN")>> \o Ones(n) \o <<Sym("RPAREN")>>

\* The tokens of ( ( 1 + 1 ) * 3 , 1 ).
NestedArguments ==
    << Sym("LPAREN"), Sym("LPAREN"), IntLit(1), Sym("PLUS"), IntLit(1), Sym("RPAREN"),
       Sym("MULTIPLY"), IntLit(3), Sym("COMMA"), IntLit(1), Sym("RPAREN") >>

Vocabulary(v) ==
    CASE v = "cond" ->
            { Sym("PP_IF"), Sym("PP_ELIF"), Sym("PP_ELSE"), Sym("PP_ENDIF"),
              PPIfdef(Chars("true"), "ifdef"), PPIfdef(Chars("true"), "ifndef"),
              IntLit(0), IntLit(1), Sym("NEWLINE"), Ident(Chars("x")) }
      [] v = "macro" ->
            { PPDefine(Chars("Foo"), <<IntLit(1)>>), PPUndef(Chars("fOo")),
              PPDefine(Chars("FOO"), <<IntLit(0)>>),
              PPDefine(Chars("true"), <<IntLit(0)>>),
              Ident(Chars("FOO")), Ident(Chars("foo")), Ident(Chars("x")),
              PPIfdef(Chars("FOO"), "ifdef"), PPIfdef(Chars("fOo"), "ifndef"),
              Sym("PP_ENDIF"), Sym("NEWLINE") }
      [] v = "recursion" ->
            { PPDefine(Chars("A"), <<Ident(Chars("A"))>>),
              PPDefine(Chars("B"), <<Ident(Chars("A")), Ident(Chars("x"))>>),
              Ident(Chars("A")), Ident(Chars("B")), Ident(Chars("x")) }
      [] v = "defined" ->
            { PPDefine(Chars("Foo"), <<IntLit(1)>>), Sym("PP_IF"),
              Keyword("defined", "DEFINED"), Sym("LPAREN"), Sym("RPAREN"),
              Ident(Chars("FOO")), Sym("NEWLINE") }
      [] v = "enum" ->
            { Keyword("enum", "ENUM"), Ident(Chars("A")), Ident(Chars("B")),
              Sym("LBRACE"), Sym("RBRACE"), Sym("COMMA"), Sym("ASSIGN"), IntLit(5),
              Sym("SEMICOLON"), Sym("LPAREN"), Sym("RPAREN") }
      [] v = "include" ->
            { PPIncludeQuoted("include", <<StrLit(<<"a.r">>)>>),
              PPIncludeQuoted("import", <<StrLit(<<"a.r">>)>>),
              PPIncludeAngle("include", <<"a.r">>),
              PPIncludeAngle("import", <<"a.r">>),
              PPIncludeAngle("include", <<"F", "f.r">>),
              PPIncludeAngle("import", <<"G", "g.r">>),
              Ident(Chars("x")) }
      [] v = "arguments" ->
            { PPDefine(Chars("A"), ArgumentList(MaxPrintfArgs)),
              PPDefine(Chars("B"), ArgumentList(MaxPrintfArgs + 1)),
              PPDefine(Chars("x"), NestedArguments),
              Sym("PP_PRINTF"), Ident(Chars("A")), Ident(Chars("B")), Ident(Chars("x")),
              Sym("NEWLINE") }
      [] v = "printf" ->
            { Sym("PP_PRINTF"), Sym("LPAREN"), Sym("RPAREN"), Sym("COMMA"), IntLit(1),
              Sym("PLUS"), Sym("NEWLINE"), Sym("SEMICOLON") }
      [] v = "inactive" ->
            { PPIfdef(Chars("x"), "ifdef"), Sym("PP_ELSE"),
              PPDefine(Chars("Foo"), <<IntLit(1)>>), PPUndef(Chars("true")),
              PPIncludeQuoted("include", <<StrLit(<<"a.r">>)>>),
              PPIncludeAngle("import", <<"a.r">>),
              Sym("PP_PRINTF"), Keyword("enum", "ENUM") }

\* The raw reads of a run: the declarations of the enum vocabulary, the
\* conditions of the defined vocabulary and the argument lists of the printf
\* vocabulary are longer than the other inputs.  The inactive vocabulary is made
\* of directives alone, one raw token each.
ReadBudget ==
    CASE vocab = "enum" -> MaxReads + 3
      [] vocab \in {"defined", "printf"} -> MaxReads + 1
      [] vocab = "inactive" -> MaxReads - 1
      [] OTHER -> MaxReads

\* What the lexer of the top frame may return at a raw read.
LexerTokens == Vocabulary(vocab) \cup {NoneTok}

(***************************************************************************)
(* The file system seen by state_for_include, and the configuration of     *)
(* the preprocessor (test.py: one user directory, one system directory).   *)
(* A path is the sequence of its components.                               *)
(***************************************************************************)
UserDir == <<"u">>
SysDir == <<"s">>

Files ==
    { <<"u", "a.r">>,
      <<"s", "F.framework", "Headers", "f.r">>,
      <<"s", "F.framework", "Frameworks", "G.framework", "Headers", "g.r">> }

\* IncludeState (preprocessor.py lines 34-42); framework None is <<>>.
IncludeState(filename, framework) == [filename |-> filename, framework |-> framework]

\* os.path.join of a directory and a relative path.
Join(dir, name) == dir \o name

\* preprocessor.py lines 420-422: A/B.r becomes A.framework/Headers/B.r.
FrameworkParts(name) ==
    LET head == SubSeq(name, 1, Len(name) - 1)
        root == IF head = <<>> THEN <<".framework">>
                ELSE SubSeq(head, 1, Len(head) - 1) \o <<head[Len(head)] \o ".framework">>
    IN  [root |-> root, rest |-> <<"Headers", name[Len(name)]>>]

\* preprocessor.py lines 401-403: the Frameworks directories of the include
\* stack, each inserted at the front.
RECURSIVE FrameworkDirs(_)
FrameworkDirs(stack) ==
    IF stack = <<>> THEN <<>>
    ELSE FrameworkDirs(Tail(stack)) \o
         (IF Head(stack).framework # <<>>
          THEN <<Join(Head(stack).framework, <<"Frameworks">>)>> ELSE <<>>)

\* preprocessor.py lines 397-407: the list searched.  include_path is the
\* list object self.sys_include_path itself, so what is inserted stays in it.
SearchPath(angle) ==
    (IF angle THEN <<>> ELSE include_path) \o FrameworkDirs(include_stack)
        \o sys_include_path

\* preprocessor.py lines 409-431: the first directory that holds the file.
RECURSIVE Resolve(_, _)
Resolve(dirs, name) ==
    IF dirs = <<>> THEN [found |-> FALSE, framework |-> <<>>]
    ELSE IF Join(Head(dirs), name) \in Files
    THEN [found |-> TRUE, framework |-> <<>>]
    ELSE IF Join(Head(dirs), FrameworkParts(name).root \o FrameworkParts(name).rest) \in Files
    THEN [found |-> TRUE, framework |-> Join(Head(dirs), FrameworkParts(name).root)]
    ELSE Resolve(Tail(dirs), name)

\* preprocessor.py lines 263-269: the file name of a PP_INCLUDE token.
IncludeName(t) ==
    IF t.angle THEN Ok(SubSeq(t.value, 2, Len(t.value) - 1))
    ELSE LET p == ParseExpr(t.body)
         IN  IF ~p.ok THEN Raise(p.exc)
             ELSE LET v == Eval(p.node)
                  IN  IF ~v.ok THEN v
                      ELSE IF IsStringExpr(p.node) THEN v
                      ELSE Raise("AttributeError")

\* preprocessor.py line 271: whether the directive enters the file.
ShouldIncludeMutant(once, key) == TRUE
ShouldInclude(once, key) == ~once \/ key \notin included_files

(***************************************************************************)
(* _token_internal (preprocessor.py lines 155-180).                        *)
(***************************************************************************)
Pending == expansion_stack # <<>>

\* expansion_stack after the pop(0) of line 158.
Popped == IF Pending THEN Tail(expansion_stack) ELSE expansion_stack

\* The token the step takes: the head of the expansion stack, else a raw read.
Candidates ==
    IF pc \in {"error", "eof"} THEN {}
    ELSE IF Pending THEN {Head(expansion_stack)}
    ELSE IF reads < ReadBudget THEN LexerTokens
    ELSE {}

\* The calls _token_internal(expand=False) are those of lines 203, 205, 210.
ExpandFlagMutant == TRUE
ExpandFlag == pc \notin {"defined", "defined_name", "defined_rparen"}

\* preprocessor.py line 171 (and 218, 231, 257, 259, 343): the key of a name.
MacroKeyMutant(name) == name
MacroKey(name) == Casefold(name)

\* preprocessor.py line 170.
Expandable(t) ==
    t.type = "IDENTIFIER" /\ if_state \in {"active", "waiting"} /\ ExpandFlag

\* preprocessor.py line 173.
DepthExceeded == Len(macro_stack) > MaxExpansionDepth

\* The token is handed back to the caller (lines 166, 178, 180).
Returned(t) ==
    /\ t.type \notin {"None", "expansion_end"}
    /\ Expandable(t) => (~DepthExceeded /\ MacroKey(t.value) \notin DOMAIN macros)

Fail(e) == pc' = "error" /\ err' = e /\ ret' = NoRet
Goto(p) == pc' = p /\ err' = "" /\ ret' = NoRet
ReturnMutant(t) ==
    pc' = "token" /\ err' = "" /\ ret' = IF enum_state = "equals" THEN NoRet ELSE t
Return(t) == pc' = "token" /\ err' = "" /\ ret' = t

condvars == <<if_stack, if_state>>
enumvars == <<enum_state, enum_counter, enum_constant_name, enum_constant_tokens,
              enum_constant_depth>>
incvars == <<include_stack, sys_include_path, included_files, last_search, import_keys>>
localvars == <<cond_tokens, printf_tokens, macro>>
fixedvars == <<include_path, vocab, ev_expr, ev_result, current_resource, unescape>>

\* What every step does: take the token, count a raw read.
Took == /\ expansion_stack' = Popped
        /\ reads' = IF Pending THEN reads ELSE reads + 1
        /\ UNCHANGED fixedvars

\* Line 164: self.include_stack.pop().
PopFrameMutant(stack) == Tail(stack)
PopFrame(stack) == SubSeq(stack, 1, Len(stack) - 1)

\* Lines 162-164: the lexer of an included file is exhausted.
EndOfInclude ==
    \E t \in Candidates :
        /\ t.type = "None" /\ Len(include_stack) > 1
        /\ include_stack' = PopFrame(include_stack)
        /\ Took /\ Goto(pc)
        /\ UNCHANGED <<macros, macro_stack, condvars, enumvars, localvars, tok, printed,
                       sys_include_path, included_files, last_search, import_keys>>

\* Lines 165-166 and 186-187: the base lexer is exhausted, token() returns None.
EndOfInput ==
    \E t \in Candidates :
        /\ t.type = "None" /\ Len(include_stack) = 1 /\ pc = "token"
        /\ Took /\ pc' = "eof" /\ err' = "" /\ ret' = NoneTok /\ tok' = t
        /\ UNCHANGED <<macros, macro_stack, condvars, enumvars, localvars, printed, incvars>>

\* Lines 201, 204, 277: a directive reads .type of the None it was handed.
EndOfInputInDirective ==
    \E t \in Candidates :
        /\ t.type = "None" /\ Len(include_stack) = 1 /\ pc # "token"
        /\ Took /\ Fail("AttributeError")
        /\ UNCHANGED <<macros, macro_stack, condvars, enumvars, localvars, tok, printed,
                       incvars>>

\* Lines 167-169.
ExpansionEndMarker ==
    \E t \in Candidates :
        /\ t.type = "expansion_end"
        /\ macro_stack' = SubSeq(macro_stack, 1, Len(macro_stack) - 1)
        /\ Took /\ Goto(pc)
        /\ UNCHANGED <<macros, condvars, enumvars, localvars, tok, printed, incvars>>

\* Line 175: self.expansion_stack[0:0] = self.macros[name] + ["expansion_end"].
ExpansionNoEndMutant(replacement, rest) == replacement \o rest
ExpansionMutant(replacement, rest) == rest \o replacement \o <<ExpansionEnd>>
Expansion(replacement, rest) == replacement \o <<ExpansionEnd>> \o rest

\* Lines 170-176: the identifier names a macro.
ExpandMacro ==
    \E t \in Candidates :
        /\ Expandable(t) /\ ~DepthExceeded /\ MacroKey(t.value) \in DOMAIN macros
        /\ expansion_stack' = Expansion(macros[MacroKey(t.value)], Popped)
        /\ macro_stack' = Append(macro_stack, MacroKey(t.value))
        /\ reads' = IF Pending THEN reads ELSE reads + 1
        /\ Goto(pc)
        /\ UNCHANGED <<macros, condvars, enumvars, localvars, tok, printed, incvars,
                       fixedvars>>

\* Lines 173-174.
ExpansionDepthError ==
    \E t \in Candidates :
        /\ Expandable(t) /\ DepthExceeded
        /\ Took /\ Fail("PreprocessError")
        /\ UNCHANGED <<macros, macro_stack, condvars, enumvars, localvars, tok, printed,
                       incvars>>

(***************************************************************************)
(* token() (preprocessor.py lines 182-394): conditional compilation.       *)
(***************************************************************************)
Push(stack, x) == Append(stack, x)
TopMutant(stack) == stack[1]
Top(stack) == stack[Len(stack)]
Pop(stack) == SubSeq(stack, 1, Len(stack) - 1)

\* Lines 192-195, with the condition collected as in an active block.
IfInactiveMutant ==
    \E t \in Candidates :
        /\ pc = "token" /\ Returned(t)
        /\ t.type = "PP_IF" /\ if_state # "active"
        /\ if_stack' = Append(if_stack, if_state)
        /\ if_state' = "outer_inactive"
        /\ tok' = t
        /\ cond_tokens' = <<>>
        /\ Took /\ Goto("cond")
        /\ UNCHANGED <<macros, macro_stack, enumvars, printf_tokens, macro, printed,
                       incvars>>

\* Lines 192-195: #if in a block that is not active.
IfInactive ==
    \E t \in Candidates :
        /\ pc = "token" /\ Returned(t)
        /\ t.type = "PP_IF" /\ if_state # "active"
        /\ if_stack' = Push(if_stack, if_state)
        /\ if_state' = "outer_inactive"
        /\ tok' = t
        /\ Took /\ Goto("token")
        /\ UNCHANGED <<macros, macro_stack, enumvars, localvars, printed, incvars>>

\* Lines 196-197: #elif in a block that is done or outer_inactive.
ElifSkipped ==
    \E t \in Candidates :
        /\ pc = "token" /\ Returned(t)
        /\ t.type = "PP_ELIF" /\ if_stack # <<>> /\ if_state \in {"done", "outer_inactive"}
        /\ tok' = t
        /\ Took /\ Goto("token")
        /\ UNCHANGED <<macros, macro_stack, condvars, enumvars, localvars, printed, incvars>>

\* Lines 189-190, 240-241, 250-251: #elif, #else, #endif outside of a block.
DirectiveOutside ==
    \E t \in Candidates :
        /\ pc = "token" /\ Returned(t)
        /\ t.type \in {"PP_ELIF", "PP_ELSE", "PP_ENDIF"} /\ if_stack = <<>>
        /\ tok' = t
        /\ Took /\ Fail("PreprocessError")
        /\ UNCHANGED <<macros, macro_stack, condvars, enumvars, localvars, printed, incvars>>

\* Lines 199-200: the condition of #if or #elif starts.
CondStart ==
    \E t \in Candidates :
        /\ pc = "token" /\ Returned(t)
        /\ \/ t.type = "PP_IF" /\ if_state = "active"
           \/ t.type = "PP_ELIF" /\ if_stack # <<>> /\ if_state \in {"active", "waiting"}
        /\ tok' = t
        /\ cond_tokens' = <<>>
        /\ Took /\ Goto("cond")
        /\ UNCHANGED <<macros, macro_stack, condvars, enumvars, printf_tokens, macro,
                       printed, incvars>>

\* Lines 201, 220-221: one token of the condition.
CondToken ==
    \E t \in Candidates :
        /\ pc = "cond" /\ Returned(t)
        /\ t.type \notin {"NEWLINE", "SEMICOLON", "DEFINED"}
        /\ cond_tokens' = Append(cond_tokens, t)
        /\ Took /\ Goto("cond")
        /\ UNCHANGED <<macros, macro_stack, condvars, enumvars, printf_tokens, macro, tok,
                       printed, incvars>>

\* lexer.py lines 90-157 and preprocessor.py lines 206, 213: the operand of
\* defined is an identifier or a keyword.
Keywords == {"ENUM", "DEFINED"}
NameLike(t) == t.type = "IDENTIFIER" \/ t.type \in Keywords

\* Line 218: the literal that replaces the defined expression.
DefinedLiteral(name) == IntLit(BoolInt(MacroKey(name) \in DOMAIN macros))

\* Lines 202-203: defined; its operand is read without expansion.
CondDefined ==
    \E t \in Candidates :
        /\ pc = "cond" /\ Returned(t)
        /\ t.type = "DEFINED"
        /\ Took /\ Goto("defined")
        /\ UNCHANGED <<macros, macro_stack, condvars, enumvars, localvars, tok, printed,
                       incvars>>

\* Lines 204-205: defined ( .
DefinedLParen ==
    \E t \in Candidates :
        /\ pc = "defined" /\ Returned(t)
        /\ t.type = "LPAREN"
        /\ Took /\ Goto("defined_name")
        /\ UNCHANGED <<macros, macro_stack, condvars, enumvars, localvars, tok, printed,
                       incvars>>

\* Lines 206-210: defined ( name .
DefinedParenName ==
    \E t \in Candidates :
        /\ pc = "defined_name" /\ Returned(t)
        /\ NameLike(t)
        /\ macro' = t.value
        /\ Took /\ Goto("defined_rparen")
        /\ UNCHANGED <<macros, macro_stack, condvars, enumvars, cond_tokens, printf_tokens,
                       tok, printed, incvars>>

\* Lines 211-212, 218-221: defined ( name ) .
DefinedRParen ==
    \E t \in Candidates :
        /\ pc = "defined_rparen" /\ Returned(t)
        /\ t.type = "RPAREN"
        /\ cond_tokens' = Append(cond_tokens, DefinedLiteral(macro))
        /\ Took /\ Goto("cond")
        /\ UNCHANGED <<macros, macro_stack, condvars, enumvars, printf_tokens, macro, tok,
                       printed, incvars>>

\* Lines 213-214, 218-221: defined name .
DefinedName ==
    \E t \in Candidates :
        /\ pc = "defined" /\ Returned(t)
        /\ NameLike(t)
        /\ macro' = t.value
        /\ cond_tokens' = Append(cond_tokens, DefinedLiteral(t.value))
        /\ Took /\ Goto("cond")
        /\ UNCHANGED <<macros, macro_stack, condvars, enumvars, printf_tokens, tok, printed,
                       incvars>>

\* Lines 209, 212, 216: a malformed defined expression.
DefinedError ==
    \E t \in Candidates :
        /\ Returned(t)
        /\ \/ pc = "defined" /\ t.type # "LPAREN" /\ ~NameLike(t)
           \/ pc = "defined_name" /\ ~NameLike(t)
           \/ pc = "defined_rparen" /\ t.type # "RPAREN"
        /\ Took /\ Fail("PreprocessError")
        /\ UNCHANGED <<macros, macro_stack, condvars, enumvars, localvars, tok, printed,
                       incvars>>

\* Lines 225-229: the state after the condition of #if or #elif is known.
CondState(type, state, cond) ==
    IF type = "PP_IF" THEN (IF cond THEN "active" ELSE "waiting")
    ELSE IF state = "waiting" /\ cond THEN "active"
    ELSE state

\* Lines 201, 223-229: the end of the condition; it is parsed and evaluated.
CondEnd ==
    \E t \in Candidates :
        /\ pc = "cond" /\ Returned(t)
        /\ t.type \in {"NEWLINE", "SEMICOLON"}
        /\ Took
        /\ LET p == ParseExpr(cond_tokens)
               v == EvalExpression(cond_tokens)
           IN  IF ~v.ok
               THEN Fail(v.exc) /\ UNCHANGED condvars
               ELSE /\ Goto("token")
                    /\ if_stack' = IF tok.type = "PP_IF" THEN Push(if_stack, if_state)
                                    ELSE if_stack
                    /\ if_state' = CondState(tok.type, if_state, Truthy(p.node, v.val))
        /\ UNCHANGED <<macros, macro_stack, enumvars, localvars, tok, printed, incvars>>

\* Line 231.
IfdefCondMutant(name, type) == MacroKey(name) \in DOMAIN macros
IfdefCond(name, type) == (MacroKey(name) \in DOMAIN macros) # (type = "ifndef")

\* Lines 230-238.
Ifdef ==
    \E t \in Candidates :
        /\ pc = "token" /\ Returned(t)
        /\ t.type = "PP_IFDEF"
        /\ if_stack' = Push(if_stack, if_state)
        /\ if_state' = IF if_state # "active" THEN "outer_inactive"
                       ELSE IF IfdefCond(t.value, t.kind) THEN "active"
                       ELSE "waiting"
        /\ tok' = t
        /\ Took /\ Goto("token")
        /\ UNCHANGED <<macros, macro_stack, enumvars, localvars, printed, incvars>>

\* Lines 243-248.
ElseStateMutant(state) ==
    IF state = "outer_inactive" THEN state
    ELSE IF state = "active" THEN "done"
    ELSE "active"
ElseStateOuterMutant(state) ==
    IF state \in {"waiting", "outer_inactive"} THEN "active" ELSE "done"
ElseState(state) ==
    IF state = "outer_inactive" THEN state
    ELSE IF state = "waiting" THEN "active"
    ELSE "done"

\* Lines 239-248.
Else ==
    \E t \in Candidates :
        /\ pc = "token" /\ Returned(t)
        /\ t.type = "PP_ELSE" /\ if_stack # <<>>
        /\ if_state' = ElseState(if_state)
        /\ tok' = t
        /\ Took /\ Goto("token")
        /\ UNCHANGED <<macros, macro_stack, if_stack, enumvars, localvars, printed, incvars>>

\* Lines 249-253.
Endif ==
    \E t \in Candidates :
        /\ pc = "token" /\ Returned(t)
        /\ t.type = "PP_ENDIF" /\ if_stack # <<>>
        /\ if_state' = Top(if_stack)
        /\ if_stack' = Pop(if_stack)
        /\ tok' = t
        /\ Took /\ Goto("token")
        /\ UNCHANGED <<macros, macro_stack, enumvars, localvars, printed, incvars>>

\* The directives of lines 188-253.
Conditional(t) == t.type \in {"PP_IF", "PP_ELIF", "PP_IFDEF", "PP_ELSE", "PP_ENDIF"}

\* Line 254: the token is dropped.
SkippedMutant(t) ==
    if_state \notin {"active", "waiting"} \/ t.type \in {"NEWLINE", "PP_EMPTY"}
SkippedOuterMutant(t) ==
    if_state = "outer_inactive" \/ t.type \in {"NEWLINE", "PP_EMPTY"}
Skipped(t) == if_state # "active" \/ t.type \in {"NEWLINE", "PP_EMPTY"}

\* Lines 254-255.
Skip ==
    \E t \in Candidates :
        /\ pc = "token" /\ Returned(t)
        /\ ~Conditional(t) /\ Skipped(t)
        /\ tok' = t
        /\ Took /\ Goto("token")
        /\ UNCHANGED <<macros, macro_stack, condvars, enumvars, localvars, printed, incvars>>

(***************************************************************************)
(* token(): #define, #undef, #include, #import.                            *)
(***************************************************************************)
\* Line 257: self.macros[name] = value.
StoreMutant(table, key, value) ==
    [k \in DOMAIN table \cup {key} |-> IF k \in DOMAIN table THEN table[k] ELSE value]
Store(table, key, value) ==
    [k \in DOMAIN table \cup {key} |-> IF k = key THEN value ELSE table[k]]

\* Line 259: self.macros.pop(name, None).
Remove(table, key) == [k \in DOMAIN table \ {key} |-> table[k]]

\* Lines 256-257.
Define ==
    \E t \in Candidates :
        /\ pc = "token" /\ Returned(t)
        /\ ~Skipped(t) /\ t.type = "PP_DEFINE"
        /\ macros' = Store(macros, MacroKey(t.value), t.body)
        /\ tok' = t
        /\ Took /\ Goto("token")
        /\ UNCHANGED <<macro_stack, condvars, enumvars, localvars, printed, incvars>>

\* Lines 258-259.
Undef ==
    \E t \in Candidates :
        /\ pc = "token" /\ Returned(t)
        /\ ~Skipped(t) /\ t.type = "PP_UNDEF"
        /\ macros' = Remove(macros, MacroKey(t.value))
        /\ tok' = t
        /\ Took /\ Goto("token")
        /\ UNCHANGED <<macro_stack, condvars, enumvars, localvars, printed, incvars>>

\* Lines 260-273 with state_for_include (lines 396-436).
Include ==
    \E t \in Candidates :
        /\ pc = "token" /\ Returned(t)
        /\ ~Skipped(t) /\ t.type = "PP_INCLUDE"
        /\ tok' = t
        /\ Took
        /\ LET once == t.kind = "import"
               name == IncludeName(t)
               key == <<name.val, t.angle>>
               dirs == SearchPath(t.angle)
               hit == Resolve(dirs, name.val)
           IN  IF ~name.ok
               THEN Fail(name.exc) /\ UNCHANGED incvars
               ELSE /\ import_keys' = IF once THEN import_keys \cup {key} ELSE import_keys
                    /\ IF ~ShouldInclude(once, key)
                       THEN /\ Goto("token")
                            /\ UNCHANGED <<include_stack, sys_include_path, included_files,
                                           last_search>>
                       ELSE /\ included_files' = included_files \cup {key}
                            /\ sys_include_path' = dirs
                            /\ last_search' = [name |-> name.val, angle |-> t.angle,
                                               include_path |-> dirs]
                            /\ IF hit.found
                               THEN /\ include_stack' =
                                           Append(include_stack,
                                                  IncludeState(name.val, hit.framework))
                                    /\ Goto("token")
                               ELSE Fail("PreprocessError") /\ UNCHANGED include_stack
        /\ UNCHANGED <<macros, macro_stack, condvars, enumvars, localvars, printed>>

(***************************************************************************)
(* token(): #printf (lines 274-320).                                       *)
(***************************************************************************)
\* Lines 274-276.
PrintfStart ==
    \E t \in Candidates :
        /\ pc = "token" /\ Returned(t)
        /\ ~Skipped(t) /\ t.type = "PP_PRINTF"
        /\ tok' = t
        /\ printf_tokens' = <<>>
        /\ Took /\ Goto("printf")
        /\ UNCHANGED <<macros, macro_stack, condvars, enumvars, cond_tokens, macro, printed,
                       incvars>>

\* Lines 277-279.
PrintfToken ==
    \E t \in Candidates :
        /\ pc = "printf" /\ Returned(t)
        /\ t.type \notin {"NEWLINE", "SEMICOLON"}
        /\ printf_tokens' = Append(printf_tokens, t)
        /\ Took /\ Goto("printf")
        /\ UNCHANGED <<macros, macro_stack, condvars, enumvars, cond_tokens, macro, tok,
                       printed, incvars>>

\* Lines 290-305: the arguments between the outer parentheses.
RECURSIVE SplitArgs(_, _, _)
SplitArgs(toks, args, level) ==
    IF toks = <<>> THEN [ok |-> level = 0, args |-> args]
    ELSE LET h == Head(toks)
         IN  CASE h.type = "LPAREN" -> SplitArgs(Tail(toks), args, level + 1)
               [] h.type = "RPAREN" ->
                    IF level - 1 < 0 THEN [ok |-> FALSE, args |-> args]
                    ELSE SplitArgs(Tail(toks), args, level - 1)
               [] h.type = "COMMA" /\ level = 0 ->
                    SplitArgs(Tail(toks), Append(args, <<>>), level)
               [] OTHER ->
                    SplitArgs(Tail(toks),
                              [args EXCEPT ![Len(args)] = Append(@, h)], level)

\* Lines 315-316: every argument is parsed, then every argument is evaluated.
RECURSIVE FirstParseError(_)
FirstParseError(args) ==
    IF args = <<>> THEN ""
    ELSE IF ~ParseExpr(Head(args)).ok THEN ParseExpr(Head(args)).exc
    ELSE FirstParseError(Tail(args))

RECURSIVE FirstEvalError(_)
FirstEvalError(args) ==
    IF args = <<>> THEN ""
    ELSE IF ~EvalExpression(Head(args)).ok THEN EvalExpression(Head(args)).exc
    ELSE FirstEvalError(Tail(args))

\* Lines 290-308: printf_args, for tokens that start with ( and end with ).
PrintfArgs(toks) ==
    LET split == SplitArgs(SubSeq(toks, 2, Len(toks) - 1), << <<>> >>, 0)
    IN  IF split.args[Len(split.args)] = <<>>
        THEN SubSeq(split.args, 1, Len(split.args) - 1)
        ELSE split.args

\* Line 312.
TooManyMutant(args) == Len(args) >= MaxPrintfArgs
TooMany(args) == Len(args) > MaxPrintfArgs

\* Lines 281-320: what #printf does with the tokens it collected.
Printf(toks) ==
    IF toks = <<>> THEN Raise("PreprocessError")
    ELSE IF toks[1].type # "LPAREN" THEN Raise("PreprocessError")
    ELSE IF toks[Len(toks)].type # "RPAREN" THEN Raise("PreprocessError")
    ELSE LET split == SplitArgs(SubSeq(toks, 2, Len(toks) - 1), << <<>> >>, 0)
             args == PrintfArgs(toks)
         IN  IF ~split.ok THEN Raise("PreprocessError")
             ELSE IF Len(args) = 0 THEN Raise("PreprocessError")
             ELSE IF TooMany(args) THEN Raise("PreprocessError")
             ELSE IF FirstParseError(args) # "" THEN Raise(FirstParseError(args))
             ELSE IF FirstEvalError(args) # "" THEN Raise(FirstEvalError(args))
             ELSE Ok([i \in 1..Len(args) |-> EvalExpression(args[i]).val])

\* Lines 277, 281-320.
PrintfEnd ==
    \E t \in Candidates :
        /\ pc = "printf" /\ Returned(t)
        /\ t.type \in {"NEWLINE", "SEMICOLON"}
        /\ Took
        /\ LET out == Printf(printf_tokens)
           IN  IF out.ok
               THEN Goto("token") /\ printed' = Append(printed, out.val)
               ELSE Fail(out.exc) /\ UNCHANGED printed
        /\ UNCHANGED <<macros, macro_stack, condvars, enumvars, localvars, tok, incvars>>

(***************************************************************************)
(* token(): the enum declaration mini-parser (lines 321-392).              *)
(***************************************************************************)
\* Lines 321-327: the enum keyword.
EnumKeyword ==
    \E t \in Candidates :
        /\ pc = "token" /\ Returned(t)
        /\ ~Skipped(t) /\ t.type = "ENUM"
        /\ tok' = t
        /\ Took
        /\ IF enum_state # "inactive"
           THEN Fail("PreprocessError") /\ UNCHANGED <<enum_state, enum_counter>>
           ELSE Return(t) /\ enum_state' = "enum" /\ enum_counter' = 0
        /\ UNCHANGED <<macros, macro_stack, condvars, enum_constant_name,
                       enum_constant_tokens, enum_constant_depth, localvars, printed,
                       incvars>>

\* The fields of the mini-parser and the macro table, as one step leaves them.
EnumFields ==
    [state |-> enum_state, counter |-> enum_counter, name |-> enum_constant_name,
     tokens |-> enum_constant_tokens, depth |-> enum_constant_depth,
     macros |-> macros, exc |-> ""]

\* Lines 355 and 366: the macro of an enum constant.
EnumMacro(value) == <<IntLit(value)>>

\* Lines 329-391: one token of an enum declaration.
EnumNext(t) ==
    LET f == EnumFields
        bad == [f EXCEPT !.exc = "PreprocessError"]
    IN  CASE enum_state = "enum" ->
                IF t.type = "IDENTIFIER" THEN [f EXCEPT !.state = "type_name"]
                ELSE IF t.type = "LBRACE" THEN [f EXCEPT !.state = "next"]
                ELSE bad
          [] enum_state = "type_name" ->
                IF t.type = "LBRACE" THEN [f EXCEPT !.state = "next"] ELSE bad
          [] enum_state = "next" ->
                IF t.type = "IDENTIFIER"
                THEN [f EXCEPT !.name = MacroKey(t.value), !.state = "name"]
                ELSE IF t.type = "RBRACE" THEN [f EXCEPT !.state = "end"]
                ELSE bad
          [] enum_state = "name" ->
                IF t.type = "ASSIGN"
                THEN [f EXCEPT !.state = "equals", !.tokens = <<>>, !.depth = 0]
                ELSE IF t.type = "COMMA"
                THEN [f EXCEPT !.macros = Store(macros, enum_constant_name,
                                                EnumMacro(enum_counter)),
                               !.counter = enum_counter + 1, !.state = "next"]
                ELSE IF t.type = "RBRACE"
                THEN [f EXCEPT !.macros = Store(macros, enum_constant_name,
                                                EnumMacro(enum_counter)),
                               !.state = "end"]
                ELSE bad
          [] enum_state = "equals" ->
                IF t.type = "COMMA" /\ enum_constant_depth = 0
                THEN LET p == ParseExpr(enum_constant_tokens)
                         v == EvalExpression(enum_constant_tokens)
                     IN  IF ~v.ok THEN [f EXCEPT !.exc = v.exc]
                         ELSE IF IsStringExpr(p.node)
                         THEN [f EXCEPT !.exc = "TypeError"]
                         ELSE [f EXCEPT !.macros = Store(macros, enum_constant_name,
                                                         EnumMacro(v.val)),
                                        !.counter = v.val + 1, !.state = "next"]
                ELSE [f EXCEPT !.tokens = Append(enum_constant_tokens, t),
                               !.depth =
                                   IF t.type \in {"LPAREN", "LBRACKET", "LBRACE"}
                                   THEN enum_constant_depth + 1
                                   ELSE IF t.type \in {"RPAREN", "RBRACKET", "RBRACE"}
                                   THEN enum_constant_depth - 1
                                   ELSE enum_constant_depth]
          [] enum_state = "value" ->
                IF t.type = "COMMA"
                THEN [f EXCEPT !.counter = enum_counter + 1, !.state = "next"]
                ELSE IF t.type = "RBRACE" THEN [f EXCEPT !.state = "end"]
                ELSE bad
          [] enum_state = "end" ->
                IF t.type = "SEMICOLON"
                THEN [f EXCEPT !.state = "inactive", !.counter = 0, !.name = <<>>,
                               !.tokens = <<>>, !.depth = 0]
                ELSE bad

\* The tokens that token() handles before it looks at the enum state.
Directive(t) ==
    Conditional(t) \/ t.type \in {"PP_DEFINE", "PP_UNDEF", "PP_INCLUDE", "PP_PRINTF"}

\* Lines 328-392.
EnumToken ==
    \E t \in Candidates :
        /\ pc = "token" /\ Returned(t)
        /\ ~Skipped(t) /\ ~Directive(t) /\ t.type # "ENUM"
        /\ enum_state # "inactive"
        /\ tok' = t
        /\ Took
        /\ LET n == EnumNext(t)
           IN  IF n.exc # ""
               THEN Fail(n.exc) /\ UNCHANGED <<macros, enumvars>>
               ELSE /\ Return(t)
                    /\ macros' = n.macros
                    /\ enum_state' = n.state
                    /\ enum_counter' = n.counter
                    /\ enum_constant_name' = n.name
                    /\ enum_constant_tokens' = n.tokens
                    /\ enum_constant_depth' = n.depth
        /\ UNCHANGED <<macro_stack, condvars, localvars, printed, incvars>>

\* Lines 393-394: any other token is returned.
Emit ==
    \E t \in Candidates :
        /\ pc = "token" /\ Returned(t)
        /\ ~Skipped(t) /\ ~Directive(t) /\ t.type # "ENUM"
        /\ enum_state = "inactive"
        /\ tok' = t
        /\ Took /\ Return(t)
        /\ UNCHANGED <<macros, macro_stack, condvars, enumvars, localvars, printed, incvars>>

(***************************************************************************)
(* RezPreprocessor.__init__ (lines 70-140).                                *)
(***************************************************************************)
PredefinedMacros ==
    [k \in {Chars("true"), Chars("false"), Chars("rez"), Chars("derez")} |->
        IF k \in {Chars("true"), Chars("rez")} THEN <<IntLit(1)>> ELSE <<IntLit(0)>>]

NoExpr == [op |-> "None"]
\* _unescape_string has not been called.
NoUnescape == [s |-> <<>>, ret |-> <<>>, lastpos |-> 0, pos |-> 0, status |-> "none"]
NoResult == [ok |-> FALSE, val |-> 0, exc |-> "not evaluated"]

InitPreprocessor ==
    /\ include_stack = <<IncludeState(<<"main.r">>, <<>>)>>
    /\ macros = PredefinedMacros
    /\ include_path = <<UserDir>>
    /\ sys_include_path = <<SysDir>>
    /\ expansion_stack = <<>>
    /\ macro_stack = <<>>
    /\ if_stack = <<>>
    /\ if_state = "active"
    /\ included_files = {}
    /\ enum_state = "inactive"
    /\ enum_counter = 0
    /\ enum_constant_name = <<>>
    /\ enum_constant_tokens = <<>>
    /\ enum_constant_depth = 0
    /\ pc = "token"
    /\ tok = NoneTok
    /\ cond_tokens = <<>>
    /\ printf_tokens = <<>>
    /\ macro = <<>>
    /\ ret = NoRet
    /\ err = ""
    /\ printed = <<>>
    /\ last_search = [name |-> <<>>, angle |-> TRUE, include_path |-> <<>>]
    /\ import_keys = {}
    /\ reads = 0

Init ==
    /\ InitPreprocessor
    /\ vocab \in Vocabularies
    /\ ev_expr = NoExpr
    /\ ev_result = NoResult
    /\ current_resource = NoResource
    /\ unescape = NoUnescape

Next ==
    \/ EndOfInclude
    \/ EndOfInput
    \/ EndOfInputInDirective
    \/ ExpansionEndMarker
    \/ ExpandMacro
    \/ ExpansionDepthError
    \/ IfInactive
    \/ ElifSkipped
    \/ DirectiveOutside
    \/ CondStart
    \/ CondToken
    \/ CondDefined
    \/ DefinedLParen
    \/ DefinedParenName
    \/ DefinedRParen
    \/ DefinedName
    \/ DefinedError
    \/ CondEnd
    \/ Ifdef
    \/ Else
    \/ Endif
    \/ Skip
    \/ Define
    \/ Undef
    \/ Include
    \/ PrintfStart
    \/ PrintfToken
    \/ PrintfEnd
    \/ EnumKeyword
    \/ EnumToken
    \/ Emit

Spec == Init /\ [][Next]_vars

(***************************************************************************)
(* Evaluator.eval as a specification of its own: the expression is drawn   *)
(* from the trees below and evaluated once.                                *)
(***************************************************************************)
Literals == {IntLiteral(n) : n \in -MaxInt..MaxInt}

\* Operands whose evaluation raises: an unknown symbol, a division by zero,
\* an unimplemented hook.
Raising ==
    { IntSymbol(Chars("x")),
      BinaryOp("Divide", IntLiteral(1), IntLiteral(0)),
      FunPackedSize(IntLiteral(0), IntLiteral(0), IntLiteral(0)) }

Expressions ==
    {BinaryOp(op, l, r) : op \in IntBinaryOps, l \in Literals \cup Raising,
                          r \in Literals \cup Raising}
        \cup {UnaryOp(op, v) : op \in IntUnaryOps, v \in Literals \cup Raising}

InitEval ==
    /\ InitPreprocessor
    /\ vocab = "cond"
    /\ ev_expr \in Expressions
    /\ ev_result = NoResult
    /\ current_resource = NoResource
    /\ unescape = NoUnescape

EvalCall ==
    /\ ev_result = NoResult
    /\ ev_result' = Eval(ev_expr)
    /\ UNCHANGED <<ev_expr, current_resource, unescape, include_stack, macros, include_path, sys_include_path,
                   expansion_stack, macro_stack, if_stack, if_state, included_files,
                   enum_state, enum_counter, enum_constant_name, enum_constant_tokens,
                   enum_constant_depth, pc, tok, cond_tokens, printf_tokens, macro, ret,
                   err, printed, last_search, import_keys, reads, vocab>>

NextEval == EvalCall

SpecEval == InitEval /\ [][NextEval]_vars

(***************************************************************************)
(* Evaluator.eval on the data functions: the evaluator has a current       *)
(* resource, and $$BitField, $$Byte or $$Word is evaluated once.           *)
(***************************************************************************)
Bytes == {0, 127, 128, 255}

RECURSIVE DataOfLength(_)
DataOfLength(n) ==
    IF n = 0 THEN {<<>>}
    ELSE {Append(d, b) : d \in DataOfLength(n - 1), b \in Bytes}

Resources == {ResourceState(d) : d \in UNION {DataOfLength(n) : n \in 1..MaxBytes}}

Starts == {0, 8}

DataExpressions ==
    {FunBitField(IntLiteral(s), IntLiteral(o), IntLiteral(l)) :
        s \in Starts, o \in 0..MaxOffset, l \in 1..MaxLength}
        \cup {FunByte(IntLiteral(s)) : s \in Starts}
        \cup {FunWord(IntLiteral(s)) : s \in Starts}

InitData ==
    /\ InitPreprocessor
    /\ vocab = "cond"
    /\ ev_expr \in DataExpressions
    /\ ev_result = NoResult
    /\ current_resource \in Resources
    /\ unescape = NoUnescape

SpecData == InitData /\ [][NextEval]_vars

(***************************************************************************)
(* _unescape_string (parser.py lines 17-87).  A string is the sequence of  *)
(* its characters; positions are Python's, counted from 0.                 *)
(***************************************************************************)
\* The characters of the strings: the backslash, the digits 0 and 1, the
\* letters of the numeric escapes, the dollar sign, and n.
Alphabet == {"\\", "0", "1", "B", "D", "X", "$", "n"}

\* ord(c), which is also the byte of c in common.STRING_ENCODING.
Ord(c) ==
    CASE c = "\\" -> 92
      [] c = "0" -> 48
      [] c = "1" -> 49
      [] c = "B" -> 66
      [] c = "D" -> 68
      [] c = "X" -> 88
      [] c = "$" -> 36
      [] c = "n" -> 110

\* str.encode(common.STRING_ENCODING).
Encode(str) == [i \in 1..Len(str) |-> Ord(str[i])]

\* s.find("\\", from).
Find(str, from) ==
    LET hits == {i \in from..(Len(str) - 1) : str[i + 1] = "\\"}
    IN  IF hits = {} THEN -1 ELSE CHOOSE i \in hits : \A j \in hits : i <= j

\* The value of a character as a digit, 99 when it is none.
DigitValue(c) ==
    CASE c = "0" -> 0
      [] c = "1" -> 1
      [] c = "B" -> 11
      [] c = "D" -> 13
      [] OTHER -> 99

RECURSIVE DigitsValue(_, _)
DigitsValue(str, base) ==
    IF str = <<>> THEN 0
    ELSE DigitsValue(SubSeq(str, 1, Len(str) - 1), base) * base
            + DigitValue(str[Len(str)])

\* int(str, base): the digits may follow the prefix 0B (base 2) or 0X
\* (base 16); anything else raises ValueError.
IntOf(str, base) ==
    LET prefixed == /\ Len(str) >= 2 /\ str[1] = "0"
                    /\ \/ base = 2 /\ str[2] = "B"
                       \/ base = 16 /\ str[2] = "X"
        digits == IF prefixed THEN SubSeq(str, 3, Len(str)) ELSE str
    IN  IF digits = <<>> \/ \E i \in 1..Len(digits) : DigitValue(digits[i]) >= base
        THEN Raise("ValueError")
        ELSE Ok(DigitsValue(digits, base))

\* Lines 18-20: the state at the first test of the loop.
UnescapeCall(str) ==
    [s |-> str, ret |-> <<>>, lastpos |-> 0, pos |-> Find(str, 0), status |-> "loop"]

\* A numeric escape of lines 29-69: the characters from..to-1 in the base,
\* appended to ret; bytearray.append raises ValueError outside of 0..255.
Numeric(u, decoded, from, to, base) ==
    LET v == IntOf(Slice(u.s, from, to), base)
    IN  IF to > Len(u.s) \/ ~v.ok \/ v.val > 255
        THEN [u EXCEPT !.ret = decoded, !.status = "ValueError"]
        ELSE [u EXCEPT !.ret = Append(decoded, v.val), !.lastpos = to,
                       !.pos = Find(u.s, to)]

\* Lines 22-84: one iteration of the loop.
Iteration(u) ==
    LET s == u.s
        pos == u.pos
        decoded == u.ret \o Encode(Slice(s, u.lastpos, pos))
        fail == [u EXCEPT !.ret = decoded, !.status = "ValueError"]
        c == s[pos + 2]
        c2 == s[pos + 3]
    IN  IF pos + 1 >= Len(s) THEN fail
        ELSE IF c = "0"
        THEN IF pos + 2 >= Len(s) THEN fail
             ELSE CASE c2 = "B" -> Numeric(u, decoded, pos + 3, pos + 11, 2)
                    [] c2 = "D" -> Numeric(u, decoded, pos + 3, pos + 6, 10)
                    [] c2 = "X" -> Numeric(u, decoded, pos + 3, pos + 5, 16)
                    [] c2 \in {"0", "1"} -> Numeric(u, decoded, pos + 1, pos + 4, 8)
                    [] OTHER -> [u EXCEPT !.ret = decoded, !.pos = Find(s, u.lastpos)]
        ELSE IF c = "$" THEN Numeric(u, decoded, pos + 2, pos + 4, 16)
        ELSE IF c = "1" THEN Numeric(u, decoded, pos + 1, pos + 4, 8)
        ELSE [u EXCEPT !.ret = Append(decoded, CASE c = "n" -> 13
                                                  [] c = "\\" -> 92
                                                  [] OTHER -> Ord(c)),
                       !.lastpos = pos + 2,
                       !.pos = Find(s, pos + 2)]

RECURSIVE StringsOfLength(_)
StringsOfLength(n) ==
    IF n = 0 THEN {<<>>}
    ELSE {Append(str, c) : str \in StringsOfLength(n - 1), c \in Alphabet}

InitUnescape ==
    /\ InitPreprocessor
    /\ vocab = "cond"
    /\ ev_expr = NoExpr
    /\ ev_result = NoResult
    /\ current_resource = NoResource
    /\ unescape \in {UnescapeCall(str) :
                        str \in UNION {StringsOfLength(n) : n \in 0..MaxString}}

\* Lines 21-84: the loop test succeeds and the body runs.
UnescapeIteration ==
    /\ unescape.status = "loop" /\ unescape.pos # -1
    /\ Len(unescape.ret) <= MaxDecoded
    /\ unescape' = Iteration(unescape)
    /\ UNCHANGED <<ppvars, evvars>>

\* Lines 21, 86-87: the loop ends and the bytes are returned.
UnescapeReturn ==
    /\ unescape.status = "loop" /\ unescape.pos = -1
    /\ unescape' = [unescape EXCEPT
                        !.ret = @ \o Encode(Slice(unescape.s, unescape.lastpos,
                                                      Len(unescape.s))),
                        !.status = "returned"]
    /\ UNCHANGED <<ppvars, evvars>>

NextUnescape == UnescapeIteration \/ UnescapeReturn

SpecUnescape == InitUnescape /\ [][NextUnescape]_vars

(***************************************************************************)
(* Properties of token().                                                  *)
(***************************************************************************)
\* The step returned a token (not None) from token().
ReturnedToken == ret' \notin {NoRet, NoneTok}

\* Two spellings of a name that differ at most in letter case.
SameName(a, b) ==
    /\ Len(a) = Len(b)
    /\ \A i \in 1..Len(a) : Lower(a[i]) = Lower(b[i])

\* Some macro is stored under a spelling of the name.
IsDefined(table, name) == \E k \in DOMAIN table : SameName(k, name)

\* C1: when the condition of a #elif has been read while the current state
\* is active, the step that finishes the directive leaves the state done.
C1_ElifWhileActiveBecomesDone ==
    [][(CondEnd /\ tok.type = "PP_ELIF" /\ if_state = "active" /\ err' = "")
            => if_state' = "done"]_vars

\* C2: every step in which token() returns a token took that token while the
\* current conditional state was active, and leaves it active.
C2_ReturnedOnlyWhileActive ==
    [][ReturnedToken => (if_state = "active" /\ if_state' = "active")]_vars

\* A token is returned from inside a conditional block.
C2_Witness ==
    /\ ret.type = "IDENTIFIER"
    /\ if_stack # <<>>
    /\ if_state = "active"

\* C3: with A defined as A, the error comes after at most MaxExpansionDepth
\* expansions: the stack of macros being expanded never holds more names.
C3_AtMostHundredExpansions ==
    (\A i \in 1..Len(macro_stack) : macro_stack[i] = Casefold(Chars("A")))
        => Len(macro_stack) <= MaxExpansionDepth

\* The value an explicit enum constant value evaluates to.
ExplicitValue == EvalExpression(enum_constant_tokens)

\* The step handles the token that ends an explicit value at depth 0.
EndsExplicitValue(types) ==
    /\ EnumToken
    /\ enum_state = "equals" /\ enum_constant_depth = 0
    /\ tok'.type \in types
    /\ ExplicitValue.ok /\ ~IsStringExpr(ParseExpr(enum_constant_tokens).node)

\* C4: the enum value law.  The enum keyword restarts the counter at 0; a
\* constant without explicit value becomes a macro for the counter, which is
\* the value of the preceding constant plus 1; a constant with an explicit
\* value, ended by a comma or by the closing brace, becomes a macro for that
\* value, and the counter continues from it.
C4_EnumValueLaw ==
    [][/\ (EnumKeyword /\ err' = "") => enum_counter' = 0
       /\ (EnumToken /\ enum_state = "name" /\ tok'.type \in {"COMMA", "RBRACE"})
            => /\ enum_constant_name \in DOMAIN macros'
               /\ macros'[enum_constant_name] = <<IntLit(enum_counter)>>
               /\ tok'.type = "COMMA" => enum_counter' = enum_counter + 1
       /\ EndsExplicitValue({"COMMA", "RBRACE"})
            => /\ enum_constant_name \in DOMAIN macros'
               /\ macros'[enum_constant_name] = <<IntLit(ExplicitValue.val)>>
               /\ tok'.type = "COMMA" => enum_counter' = ExplicitValue.val + 1]_vars

\* C5: a closing brace at depth 0 ends the explicit value of the last
\* constant: the tokens are evaluated, the constant is defined, and the state
\* becomes end.
C5_BraceEndsExplicitValue ==
    [][EndsExplicitValue({"RBRACE"})
            => /\ enum_state' = "end"
               /\ enum_constant_name \in DOMAIN macros'
               /\ err' = ""]_vars

\* C6: macro names are case-insensitive wherever they are keys.  No two
\* entries of the table differ only in case; an identifier is returned by
\* token() only if no macro has its name in any case; #undef leaves no macro
\* under any spelling of its name; #ifdef, #ifndef and defined see a macro
\* stored under any spelling of the name they are given.
C6_MacroNamesIgnoreCase ==
    [][/\ \A j, k \in DOMAIN macros : SameName(j, k) => j = k
       /\ (ReturnedToken /\ pc = "token" /\ ret'.type = "IDENTIFIER")
            => ~IsDefined(macros, ret'.value)
       /\ Undef => ~IsDefined(macros', tok'.value)
       /\ (Ifdef /\ if_state = "active")
            => ((if_state' = "active")
                    <=> (IsDefined(macros, tok'.value) # (tok'.kind = "ifndef")))
       /\ (DefinedName \/ DefinedRParen)
            => cond_tokens'[Len(cond_tokens')].num = BoolInt(IsDefined(macros, macro'))]_vars

\* #ifdef FOO has found the macro that #define Foo stored.
C6_Witness ==
    /\ tok = PPIfdef(Chars("FOO"), "ifdef")
    /\ if_stack = <<"active">>
    /\ if_state = "active"
    /\ Casefold(Chars("Foo")) \in DOMAIN macros
    /\ Chars("FOO") \notin DOMAIN macros

\* The key of the #import the step handles, and whether its file is found.
ImportStep == Include /\ tok'.kind = "import" /\ IncludeName(tok').ok
ImportKey == <<IncludeName(tok').val, tok'.angle>>
ImportFound == Resolve(SearchPath(tok'.angle), IncludeName(tok').val).found
ImportPushed == Len(include_stack') = Len(include_stack) + 1

\* C7 as stated: a #import whose file is found pushes a frame exactly if its
\* key was not used by an earlier #import.
C7_ImportOnceAfterImport ==
    [][(ImportStep /\ ImportFound) => (ImportPushed <=> ImportKey \notin import_keys)]_vars

\* C7: a #import in an active block pushes a frame exactly if its file is
\* found and its key was not used by an earlier #import or #include; a #import
\* of a key used before pushes no frame, returns no token and raises no error;
\* the set of used keys never shrinks, and holds the key of every #import.
C7_ImportOnceAfterAnyInclude ==
    [][/\ included_files \subseteq included_files'
       /\ import_keys' \subseteq included_files'
       /\ ImportStep
            => /\ ImportPushed <=> (ImportKey \notin included_files /\ ImportFound)
               /\ ImportKey \in included_files
                    => /\ include_stack' = include_stack
                       /\ ret' = NoRet
                       /\ err' = ""]_vars

\* A #import was skipped: the file searched last is not the one it names.
C7_Witness ==
    /\ tok.type = "PP_INCLUDE" /\ tok.kind = "import"
    /\ pc = "token" /\ err = ""
    /\ last_search.name # IncludeName(tok).val
    /\ <<IncludeName(tok).val, tok.angle>> \in included_files

\* C8: the list an angle-form directive searches holds no directory of the
\* user include path.
C8_AngleSkipsUserPath ==
    last_search.angle
        => \A i \in 1..Len(last_search.include_path), j \in 1..Len(include_path) :
                last_search.include_path[i] # include_path[j]

(***************************************************************************)
(* Properties of Evaluator.eval.                                           *)
(***************************************************************************)
Sign(n) == IF n < 0 THEN -1 ELSE IF n > 0 THEN 1 ELSE 0

\* eval of the operation on two literals.
EvalOf(op, a, b) == Eval(BinaryOp(op, IntLiteral(a), IntLiteral(b))).val

\* The evaluated expression applies op to two literals, the right one not 0.
Evaluated(op) ==
    /\ ev_result # NoResult
    /\ ev_expr.op = op
    /\ ev_expr.left.op = "IntLiteral" /\ ev_expr.right.op = "IntLiteral"
    /\ ev_expr.right.value # 0

\* C9: for a / b and a % b with b # 0: negating the dividend negates the
\* result computed with |b|; the quotient truncates toward zero; quotient and
\* remainder have the sign of the dividend or are 0; the sign of the divisor
\* does not matter; a = (a / b) * |b| + (a % b).
C9_DivideModuloSign ==
    /\ Evaluated("Divide")
        => LET a == ev_expr.left.value
               b == ev_expr.right.value
               q == ev_result.val
           IN  /\ ev_result.ok
               /\ q = -EvalOf("Divide", -a, Abs(b))
               /\ q = EvalOf("Divide", a, -b)
               /\ Abs(q) * Abs(b) <= Abs(a) /\ Abs(a) < (Abs(q) + 1) * Abs(b)
               /\ Sign(q) \in {0, Sign(a)}
               /\ a = q * Abs(b) + EvalOf("Modulo", a, b)
    /\ Evaluated("Modulo")
        => LET a == ev_expr.left.value
               b == ev_expr.right.value
               m == ev_result.val
           IN  /\ ev_result.ok
               /\ m = -EvalOf("Modulo", -a, Abs(b))
               /\ m = EvalOf("Modulo", a, -b)
               /\ Abs(m) < Abs(b)
               /\ Sign(m) \in {0, Sign(a)}

\* -5 / 2 has been evaluated.
C9_Witness ==
    /\ ev_expr = BinaryOp("Divide", IntLiteral(-5), IntLiteral(2))
    /\ ev_result = Ok(-2)

\* C10: 0 && X and n || X with n # 0 evaluate to the left operand, whatever
\* evaluating X would raise.
C10_ShortCircuit ==
    (ev_result # NoResult /\ ev_expr.op \in {"BoolAnd", "BoolOr"}
        /\ ev_expr.left.op = "IntLiteral"
        /\ (ev_expr.left.value = 0) = (ev_expr.op = "BoolAnd"))
        => ev_result = Ok(ev_expr.left.value)

\* 0 && X has been evaluated for an X whose evaluation raises.
C10_Witness ==
    /\ ev_expr.op = "BoolAnd"
    /\ ev_expr.left = IntLiteral(0)
    /\ ev_expr.right \in Raising
    /\ ev_result.ok

\* The bits start + offset .. start + offset + length - 1 of the data the
\* evaluated function reads.
FieldStart ==
    ev_expr.start.value + (IF ev_expr.op = "FunBitField" THEN ev_expr.offset.value ELSE 0)
FieldLength ==
    CASE ev_expr.op = "FunBitField" -> ev_expr.length.value
      [] ev_expr.op = "FunByte" -> 8
      [] ev_expr.op = "FunWord" -> 16

\* Bit i of the data, counted from the most significant bit of the first byte.
DataBit(i) == (current_resource.data[i \div 8 + 1] \div Pow2(7 - (i % 8))) % 2

\* The big-endian value of the first n bits of the field.
RECURSIVE FieldBits(_)
FieldBits(n) ==
    IF n = 0 THEN 0 ELSE 2 * FieldBits(n - 1) + DataBit(FieldStart + n - 1)

\* C11: when the bits of the field lie inside the data, the data function
\* returns their big-endian value as a two's-complement signed integer.
C11_BitfieldSigned ==
    (/\ ev_result # NoResult
     /\ ev_expr.op \in {"FunBitField", "FunByte", "FunWord"}
     /\ FieldStart + FieldLength <= 8 * Len(current_resource.data))
        => ev_result =
             Ok(IF FieldBits(FieldLength) >= Pow2(FieldLength - 1)
                THEN FieldBits(FieldLength) - Pow2(FieldLength)
                ELSE FieldBits(FieldLength))

\* C12: tokens come out in source order modulo macro expansion.  A raw token
\* is read only when no replacement token is pending; expanding a macro
\* returns nothing and puts its replacement list, in order, in front of what
\* was pending; a pending token is consumed from the front, and a token
\* returned while tokens are pending is the first of them.
C12_SourceOrderModuloExpansion ==
    [][/\ reads' # reads => expansion_stack = <<>>
       /\ ExpandMacro
            => /\ ret' = NoRet
               /\ \E k \in DOMAIN macros :
                    expansion_stack' = macros[k] \o <<ExpansionEnd>> \o Popped
       /\ (Pending /\ ~ExpandMacro) => expansion_stack' = Tail(expansion_stack)
       /\ (Pending /\ ReturnedToken) => ret' = Head(expansion_stack)]_vars

\* B is defined as A x: the x of its replacement list is returned after the A,
\* before the expansion of B ends.
C12_Witness ==
    /\ ret = Ident(Chars("x"))
    /\ macro_stack = <<Casefold(Chars("B"))>>
    /\ expansion_stack = <<ExpansionEnd>>

\* C13: a #if read while the current state is not active pushes the state
\* and makes the state outer_inactive, and its condition is discarded: while
\* the state is outer_inactive no condition is collected, parsed or
\* evaluated, nothing is raised and no token is returned.
C13_IfInInactiveBlock ==
    [][/\ IfInactive
            => /\ if_stack' = Append(if_stack, if_state)
               /\ if_state' = "outer_inactive"
               /\ pc' = "token" /\ err' = "" /\ ret' = NoRet
       /\ if_state = "outer_inactive"
            => /\ pc = "token" /\ pc' \in {"token", "eof"}
               /\ err' = ""
               /\ ret' \in {NoRet, NoneTok}
               /\ cond_tokens' = cond_tokens]_vars

\* A #if has been read in a block that was not active.
C13_Witness ==
    /\ tok.type = "PP_IF"
    /\ pc = "token"
    /\ if_state = "outer_inactive"
    /\ Len(if_stack) = 2

\* C14: #ifdef and #ifndef always push the current state; the new state is
\* outer_inactive when the pushed state was not active, else active exactly
\* when (the name is a macro) differs from (the directive is #ifndef), and
\* waiting otherwise.
C14_IfdefState ==
    [][Ifdef
        => LET defined == Casefold(tok'.value) \in DOMAIN macros
               negated == tok'.kind = "ifndef"
           IN  /\ if_stack' = Append(if_stack, if_state)
               /\ if_state # "active" => if_state' = "outer_inactive"
               /\ if_state = "active"
                    => if_state' = IF (defined /\ ~negated) \/ (~defined /\ negated)
                                   THEN "active" ELSE "waiting"]_vars

\* #ifndef of a defined macro in an active block: the state is waiting.
C14_Witness ==
    /\ tok = PPIfdef(Chars("true"), "ifndef")
    /\ pc = "token"
    /\ if_stack = <<"active">>
    /\ if_state = "waiting"

\* C15: #else with a non-empty conditional stack keeps outer_inactive, turns
\* waiting into active, turns active and done into done, and never changes
\* the stack.
C15_ElseState ==
    [][Else
        => /\ if_stack # <<>>
           /\ if_stack' = if_stack
           /\ if_state' = CASE if_state = "outer_inactive" -> "outer_inactive"
                            [] if_state = "waiting" -> "active"
                            [] if_state \in {"active", "done"} -> "done"]_vars

\* A #else has been read in a block whose chain had an active branch.
C15_Witness ==
    /\ tok.type = "PP_ELSE"
    /\ pc = "token"
    /\ if_stack # <<>>
    /\ if_state = "done"

\* C16: #elif, #else and #endif with an empty conditional stack raise
\* PreprocessError and change neither the state nor the stack; #endif with a
\* non-empty stack pops the stack into the state; the stack changes only by
\* pushing the current state or by popping into it, so a balanced block leaves
\* state and stack as they were before it.
C16_EndifRestores ==
    [][/\ (pc = "token" /\ if_stack = <<>> /\ DirectiveOutside)
            => /\ err' = "PreprocessError"
               /\ if_state' = if_state /\ if_stack' = if_stack
       /\ Endif
            => /\ if_stack # <<>>
               /\ if_state' = if_stack[Len(if_stack)]
               /\ if_stack' = SubSeq(if_stack, 1, Len(if_stack) - 1)
               /\ err' = ""
       /\ if_stack' # if_stack
            => \/ if_stack' = Append(if_stack, if_state)
               \/ if_stack = Append(if_stack', if_state')]_vars

\* A nested block has been closed by its #endif inside a waiting block.
C16_Witness ==
    /\ tok.type = "PP_ENDIF"
    /\ pc = "token" /\ err = ""
    /\ if_stack = <<"active">>
    /\ if_state = "waiting"

\* C17: in an active block #define stores the replacement list under the
\* casefolded name, replacing an existing entry, and #undef removes the entry
\* of the casefolded name if there is one; neither raises, and neither
\* changes another entry.
C17_DefineUndefFrame ==
    [][/\ Define
            => LET key == Casefold(tok'.value)
               IN  /\ if_state = "active" /\ err' = ""
                   /\ DOMAIN macros' = DOMAIN macros \cup {key}
                   /\ macros'[key] = tok'.body
                   /\ \A k \in DOMAIN macros \ {key} : macros'[k] = macros[k]
       /\ Undef
            => LET key == Casefold(tok'.value)
               IN  /\ if_state = "active" /\ err' = ""
                   /\ DOMAIN macros' = DOMAIN macros \ {key}
                   /\ \A k \in DOMAIN macros' : macros'[k] = macros[k]]_vars

\* The predefined macro true has been replaced by #define true 0.
C17_Witness ==
    /\ tok = PPDefine(Chars("true"), <<IntLit(0)>>)
    /\ pc = "token" /\ err = ""
    /\ macros[Chars("true")] = <<IntLit(0)>>

\* C18: while a condition is collected, the tokens of a defined expression
\* after the word defined are taken without macro expansion; the expression
\* becomes one literal, 1 if the casefolded operand is a macro and 0 if not;
\* an identifier that stays in the condition is not the name of a macro.
C18_DefinedOperand ==
    [][/\ pc \in {"defined", "defined_name", "defined_rparen"}
            => /\ macro_stack' = macro_stack
               /\ expansion_stack' = Popped
       /\ (DefinedName \/ DefinedRParen)
            => cond_tokens' =
                    Append(cond_tokens,
                           IntLit(IF Casefold(macro') \in DOMAIN macros THEN 1 ELSE 0))
       /\ (CondToken /\ cond_tokens'[Len(cond_tokens')].type = "IDENTIFIER")
            => Casefold(cond_tokens'[Len(cond_tokens')].value) \notin DOMAIN macros]_vars

\* defined FOO has become the literal 1: Foo is a macro and was not expanded.
C18_Witness ==
    /\ pc = "cond"
    /\ macro = Chars("FOO")
    /\ cond_tokens = <<IntLit(1)>>
    /\ macro_stack = <<>> /\ expansion_stack = <<>>

\* The nesting depth after the tokens, -1 once a ) closes nothing.
RECURSIVE Depth(_, _)
Depth(toks, level) ==
    IF level < 0 \/ toks = <<>> THEN level
    ELSE Depth(Tail(toks),
               CASE Head(toks).type = "LPAREN" -> level + 1
                 [] Head(toks).type = "RPAREN" -> level - 1
                 [] OTHER -> level)

\* The tokens between the outer parentheses of a #printf.
Inner(toks) == SubSeq(toks, 2, Len(toks) - 1)

\* The tokens are one parenthesized list: ( ... ) with balanced contents.
OneList(toks) ==
    /\ Len(toks) >= 2
    /\ toks[1].type = "LPAREN" /\ toks[Len(toks)].type = "RPAREN"
    /\ Depth(Inner(toks), 0) = 0

\* The token sequences between consecutive top-level commas, parentheses kept.
RECURSIVE Segments(_, _, _)
Segments(toks, segs, level) ==
    IF toks = <<>> THEN segs
    ELSE LET h == Head(toks)
         IN  IF h.type = "COMMA" /\ level = 0
             THEN Segments(Tail(toks), Append(segs, <<>>), level)
             ELSE Segments(Tail(toks), [segs EXCEPT ![Len(segs)] = Append(@, h)],
                           CASE h.type = "LPAREN" -> level + 1
                             [] h.type = "RPAREN" -> level - 1
                             [] OTHER -> level)

ListArguments(toks) == Segments(Inner(toks), << <<>> >>, 0)

\* The list holds arguments only: no argument is empty.
ProperList(toks) ==
    /\ OneList(toks)
    /\ \A i \in 1..Len(ListArguments(toks)) : ListArguments(toks)[i] # <<>>

\* Every argument of the list holds a token besides parentheses: an argument
\* such as ( ) names no expression to count.
Substantive(toks) ==
    \A i \in 1..Len(ListArguments(toks)) :
        \E j \in 1..Len(ListArguments(toks)[i]) :
            ListArguments(toks)[i][j].type \notin {"LPAREN", "RPAREN"}

ArgumentValues(toks) ==
    [i \in 1..Len(ListArguments(toks)) |-> EvalExpression(ListArguments(toks)[i]).val]

\* C20: the arguments #printf hands to the expression parser are the token
\* sequences between consecutive top-level commas with their nested
\* parentheses, and what it prints are their values.
C20_PrintfKeepsParentheses ==
    [][(PrintfEnd /\ ProperList(printf_tokens))
            => /\ PrintfArgs(printf_tokens) = ListArguments(printf_tokens)
               /\ err' = "" => printed' = Append(printed, ArgumentValues(printf_tokens))]_vars

\* C21: the enum keyword and every token the enum state machine accepts are
\* returned by token() as they were taken, in the order they were taken: the
\* step returns the token it took (the first pending token if one is
\* pending), removes nothing else from the pending tokens, and removes no
\* macro; a token the state machine rejects is not returned.
C21_EnumTokensFlow ==
    [][(EnumKeyword \/ EnumToken)
        => /\ err' = "" => ret' = tok'
           /\ err' # "" => ret' = NoRet
           /\ Pending => tok' = Head(expansion_stack)
           /\ expansion_stack' = Popped
           /\ macro_stack' = macro_stack
           /\ DOMAIN macros \subseteq DOMAIN macros'
           /\ if_state = "active"]_vars

\* In enum { A , B = A , the A of the value of B has been returned as the
\* literal 0 that the macro A stands for, and the comma after it is next.
C21_Witness ==
    /\ enum_state = "equals"
    /\ ret = IntLit(0)
    /\ enum_constant_tokens = <<IntLit(0)>>
    /\ Casefold(Chars("A")) \in DOMAIN macros
    /\ err = ""

\* C22: in every state in which no PreprocessError has been raised, the stack
\* of macros being expanded holds at most MaxExpansionDepth names.
C22_StackWithinDepth ==
    err # "PreprocessError" => Len(macro_stack) <= MaxExpansionDepth

\* C23: while the current state is not active, a token read outside of a
\* #elif condition is taken without macro expansion: the step removes that
\* token from the pending tokens and adds none, leaves the stack of macros
\* being expanded as it is, and does not raise the expansion-depth error.
C23_NoExpansionWhileInactive ==
    [][(if_state # "active" /\ pc = "token")
        => /\ macro_stack' = macro_stack
           /\ expansion_stack' = Popped
           /\ ~ExpansionDepthError]_vars

\* The directives with side effects, and the enum keyword.
SideEffecting(t) ==
    t.type \in {"PP_DEFINE", "PP_UNDEF", "PP_INCLUDE", "PP_PRINTF", "ENUM"}

\* C24: a #define, #undef, #include, #import, #printf or enum read while the
\* current state is not active changes neither the macro table, nor the
\* include stack, nor the set of included files, nor the enum state machine;
\* no file is searched for and nothing is printed; nothing is raised and no
\* token is returned.  No step taken while the state is not active changes
\* the macro table, the included files or the enum state machine, searches
\* for a file or prints.
C24_SideEffectsOnlyWhenActive ==
    [][/\ (if_state # "active" /\ pc = "token" /\ (Skip \/ tok' # tok)
            /\ SideEffecting(tok'))
            => /\ include_stack' = include_stack
               /\ pc' = "token" /\ err' = "" /\ ret' = NoRet
       /\ if_state # "active"
            => /\ macros' = macros
               /\ included_files' = included_files /\ import_keys' = import_keys
               /\ last_search' = last_search /\ sys_include_path' = sys_include_path
               /\ printed' = printed
               /\ <<enum_state', enum_counter', enum_constant_name',
                    enum_constant_tokens', enum_constant_depth'>>
                    = <<enum_state, enum_counter, enum_constant_name,
                        enum_constant_tokens, enum_constant_depth>>]_vars

\* A #include has been read in a block that is waiting: no file was searched
\* for and the include stack holds the base frame alone.
C24_Witness ==
    /\ tok.type = "PP_INCLUDE"
    /\ pc = "token" /\ err = ""
    /\ if_state = "waiting"
    /\ Len(include_stack) = 1
    /\ included_files = {}
    /\ last_search.name = <<>>

\* C25: the include stack always holds the base frame at its bottom.  It
\* shrinks only by its top frame, in the step in which the lexer of that frame
\* is exhausted: a raw read with nothing pending and more than one frame on
\* the stack, which returns nothing, raises nothing and goes on reading at
\* the same call site, from the frame beneath.  It grows only by one frame on
\* top, pushed by the step that handles the directive.  token() returns the
\* end of the input only for a raw read with the base frame alone on the
\* stack.
C25_IncludeFramesPopAtEnd ==
    [][/\ include_stack # <<>> /\ include_stack' # <<>>
       /\ include_stack'[1] = include_stack[1]
       /\ EndOfInclude
            => /\ Len(include_stack) > 1
               /\ include_stack' = SubSeq(include_stack, 1, Len(include_stack) - 1)
       /\ Len(include_stack') < Len(include_stack)
            => /\ EndOfInclude
               /\ ~Pending /\ reads' = reads + 1
               /\ pc' = pc /\ err' = "" /\ ret' = NoRet
       /\ Len(include_stack') > Len(include_stack)
            => /\ Include
               /\ SubSeq(include_stack', 1, Len(include_stack)) = include_stack
               /\ Len(include_stack') = Len(include_stack) + 1
       /\ ret' = NoneTok
            => /\ Len(include_stack) = 1 /\ include_stack' = include_stack
               /\ ~Pending /\ reads' = reads + 1]_vars

\* A token of the base file has been returned after the file a.r was
\* included, read to its end and popped.
C25_Witness ==
    /\ ret = Ident(Chars("x"))
    /\ pc = "token" /\ err = ""
    /\ included_files # {}
    /\ include_stack = <<IncludeState(<<"main.r">>, <<>>)>>

\* C26: the system include path and the user include path always hold
\* exactly their configured entries.
C26_IncludePathsUnchanged ==
    /\ sys_include_path = <<SysDir>>
    /\ include_path = <<UserDir>>

\* C27: every iteration of the loop of _unescape_string either raises or
\* moves lastpos past the backslash at pos that it handled, so that the next
\* search starts after it.
C27_UnescapeAdvances ==
    [][UnescapeIteration
        => \/ unescape'.status = "ValueError"
           \/ unescape'.lastpos > unescape.pos]_vars

\* C28: when the conditional stack is empty the current state is active; the
\* bottom entry of the stack is active; when an entry of the stack is not
\* active, every entry above it and the current state are outer_inactive; the
\* current state is active only if every entry is active, and it is
\* outer_inactive exactly when the stack is not empty and its top entry is
\* not active.
C28_ConditionalStackInvariant ==
    /\ if_stack = <<>> => if_state = "active"
    /\ if_stack # <<>> => if_stack[1] = "active"
    /\ \A i \in 1..Len(if_stack) :
            if_stack[i] # "active"
                => /\ \A j \in (i + 1)..Len(if_stack) : if_stack[j] = "outer_inactive"
                   /\ if_state = "outer_inactive"
    /\ if_state = "active" => \A i \in 1..Len(if_stack) : if_stack[i] = "active"
    /\ if_state = "outer_inactive"
            <=> (if_stack # <<>> /\ if_stack[Len(if_stack)] # "active")

\* A block nested in a block nested in a waiting block, after its #else.
C28_Witness ==
    /\ if_stack = <<"active", "waiting", "outer_inactive">>
    /\ if_state = "outer_inactive"
    /\ tok.type = "PP_ELSE"

\* The number of end-of-expansion sentinels among the tokens.
RECURSIVE Sentinels(_)
Sentinels(toks) ==
    IF toks = <<>> THEN 0
    ELSE (IF Head(toks) = ExpansionEnd THEN 1 ELSE 0) + Sentinels(Tail(toks))

\* C29: the pending tokens hold as many end-of-expansion sentinels as the
\* stack of macros being expanded holds names; a raw token is read only when
\* no token is pending, and then no macro is being expanded; a step that
\* neither expands a macro nor takes a sentinel, such as one whose identifier
\* names no macro, leaves the macro stack as it is and takes nothing but its
\* own token from the pending tokens.
C29_ExpansionBookkeeping ==
    [][/\ Sentinels(expansion_stack) = Len(macro_stack)
       /\ Sentinels(expansion_stack') = Len(macro_stack')
       /\ reads' # reads => (expansion_stack = <<>> /\ macro_stack = <<>>)
       /\ (~ExpandMacro /\ ~ExpansionEndMarker)
            => /\ macro_stack' = macro_stack
               /\ expansion_stack' = Popped
       /\ (Pending /\ Head(expansion_stack).type = "IDENTIFIER"
            /\ Casefold(Head(expansion_stack).value) \notin DOMAIN macros)
            => /\ macro_stack' = macro_stack
               /\ expansion_stack' = Tail(expansion_stack)]_vars

\* B is defined as A x and A as A: while B and A are being expanded the
\* pending tokens hold two sentinels, and x between them.
C29_Witness ==
    /\ Len(macro_stack) = 2
    /\ macro_stack[1] = Casefold(Chars("B"))
    /\ Sentinels(expansion_stack) = 2
    /\ Len(expansion_stack) = 4

\* C30: on integer operands, every comparison and every boolean operator
\* evaluates to 0 or 1.
C30_BooleanResults ==
    (/\ ev_result # NoResult /\ ev_result.ok
     /\ ev_expr.op \in {"LessThan", "GreaterThan", "LessThanEqual", "GreaterThanEqual",
                        "Equal", "NotEqual", "BoolNot", "BoolAnd", "BoolOr"})
        => ev_result.val \in {0, 1}

====
